---- MODULE Spec2Model ----
(***************************************************************************)
(* Model of the data-processing pipeline of refactoring/oop_process_data.py *)
(* and refactoring/oop_with_logging.py (cleaner -> extractor -> statistic   *)
(* -> presenter) and of the dictionary-backed Database of fixtures/db.py.   *)
(*                                                                         *)
(* A Python str is a sequence of one-character strings.  A character that  *)
(* is not ASCII is written by its code point: "U+00B2" is SUPERSCRIPT TWO,  *)
(* "U+0663" is ARABIC-INDIC DIGIT THREE.  A Python number is a record       *)
(* [ty, num, den]: ty is "int" or "float", num/den the value in lowest      *)
(* terms (true division of small integers is exact up to rounding of the    *)
(* same quotient, so equal quotients are equal floats).                      *)
(***************************************************************************)
EXTENDS Integers, Sequences, FiniteSets, TLC

\* ------------------------------------------------------------------ bounds
MaxRecords == 3
MaxLen == 4
MaxNum == 3
MaxOps == 4
MaxId == 2

\* ------------------------------------------------------- Python primitives
AsciiDigits == {"0", "1", "2", "3", "4", "5", "6", "7", "8", "9"}
\* str.isdecimal characters beyond ASCII (Unicode category Nd)
OtherDecimalDigits == {"U+0663"}
\* str.isdigit characters that are not decimal (Numeric_Type=Digit only)
NonDecimalDigits == {"U+00B2"}
Whitespace == {" ", "\t"}

DigitValue(c) ==
  CASE c = "0" -> 0 [] c = "1" -> 1 [] c = "2" -> 2 [] c = "3" -> 3
    [] c = "4" -> 4 [] c = "5" -> 5 [] c = "6" -> 6 [] c = "7" -> 7
    [] c = "8" -> 8 [] c = "9" -> 9 [] c = "U+0663" -> 3

\* bool(x) of a str: the empty string is falsy
Truthy(s) == Len(s) > 0

RECURSIVE LStrip(_)
LStrip(s) ==
  IF s # <<>> /\ Head(s) \in Whitespace THEN LStrip(Tail(s)) ELSE s

RECURSIVE RStrip(_)
RStrip(s) ==
  IF s # <<>> /\ s[Len(s)] \in Whitespace
    THEN RStrip(SubSeq(s, 1, Len(s) - 1)) ELSE s

\* str.strip()
PyStrip(s) == RStrip(LStrip(s))

\* str.isdigit(): non-empty and every character has the Digit property
PyIsDigit(s) ==
  /\ Len(s) > 0
  /\ \A i \in 1..Len(s) : s[i] \in AsciiDigits \cup OtherDecimalDigits \cup NonDecimalDigits

RECURSIVE DecimalValue(_)
DecimalValue(s) ==
  IF s = <<>> THEN 0
  ELSE 10 * DecimalValue(SubSeq(s, 1, Len(s) - 1)) + DigitValue(s[Len(s)])

\* int(str): surrounding whitespace is ignored, one optional sign, then one or
\* more decimal digits; anything else is ValueError
IntBody(s) ==
  LET t == PyStrip(s)
  IN IF t # <<>> /\ Head(t) \in {"+", "-"} THEN Tail(t) ELSE t

IntSign(s) ==
  LET t == PyStrip(s)
  IN IF t # <<>> /\ Head(t) = "-" THEN -1 ELSE 1

PyIntOk(s) ==
  /\ IntBody(s) # <<>>
  /\ \A i \in 1..Len(IntBody(s)) : IntBody(s)[i] \in AsciiDigits \cup OtherDecimalDigits

PyInt(s) == IntSign(s) * DecimalValue(IntBody(s))

Abs(n) == IF n < 0 THEN -n ELSE n

RECURSIVE GCD(_, _)
GCD(a, b) == IF b = 0 THEN a ELSE GCD(b, a % b)

NoVal == [ty |-> "none", num |-> 0, den |-> 1]
IntVal(n) == [ty |-> "int", num |-> n, den |-> 1]

\* a / b of two ints with b # 0: a float
TrueDiv(a, b) ==
  LET g == GCD(Abs(a), Abs(b))
  IN [ty |-> "float", num |-> a \div g, den |-> b \div g]

\* float(n)
PyFloat(n) == [ty |-> "float", num |-> n, den |-> 1]

\* Python's == on numbers: 2 == 2.0
PyEq(a, b) == a.ty # "none" /\ b.ty # "none" /\ a.num = b.num /\ a.den = b.den

RECURSIVE PySum(_)
PySum(nums) == IF nums = <<>> THEN 0 ELSE Head(nums) + PySum(Tail(nums))

RECURSIVE Insert(_, _)
Insert(x, s) ==
  IF s = <<>> THEN <<x>>
  ELSE IF x < Head(s) THEN <<x>> \o s
  ELSE <<Head(s)>> \o Insert(x, Tail(s))

\* sorted(): a new ascending list, stable
RECURSIVE PySorted(_)
PySorted(nums) ==
  IF nums = <<>> THEN <<>>
  ELSE Insert(nums[Len(nums)], PySorted(SubSeq(nums, 1, Len(nums) - 1)))

\* outcomes of a call: a returned value or a raised exception
Raised(exc, msg) == [kind |-> "raise", exc |-> exc, msg |-> msg, val |-> NoVal, list |-> <<>>]
Returned(v) == [kind |-> "return", exc |-> "", msg |-> "", val |-> v, list |-> <<>>]
ReturnedList(l) == [kind |-> "return", exc |-> "", msg |-> "", val |-> NoVal, list |-> l]
NoOutcome == [kind |-> "none", exc |-> "", msg |-> "", val |-> NoVal, list |-> <<>>]

\* list[i] with Python's negative indices; out of range is IndexError
PyIndexOk(l, i) == LET j == IF i < 0 THEN i + Len(l) ELSE i IN j >= 0 /\ j < Len(l)
PyIndex(l, i) == LET j == IF i < 0 THEN i + Len(l) ELSE i IN l[j + 1]

\* ------------------------------------------------ events of one run's trace
CallItem(name, strs, nums, lbl, val) ==
  [ev |-> "call", name |-> name, strs |-> strs, nums |-> nums, lbl |-> lbl, val |-> val]
\* Loggable._log: one structured event; only the event name and the label and
\* value fields are kept (durations are wall-clock readings)
Loggable_log(event, lbl, val) ==
  [ev |-> "log", name |-> event, strs |-> <<>>, nums |-> <<>>, lbl |-> lbl, val |-> val]

\* ------------------------------------- roles of refactoring/oop_process_data.py
\* [x.strip() for x in data if x]
RECURSIVE WhitespaceCleaner_clean(_)
WhitespaceCleaner_clean(data) ==
  IF data = <<>> THEN <<>>
  ELSE IF Truthy(Head(data))
    THEN <<PyStrip(Head(data))>> \o WhitespaceCleaner_clean(Tail(data))
    ELSE WhitespaceCleaner_clean(Tail(data))

\* process_data.py: clean_data is the same comprehension
clean_data(data) == WhitespaceCleaner_clean(data)

\* [int(x) for x in data if x.isdigit()]: the first int() that fails ends the
\* comprehension with its ValueError
RECURSIVE ExtractFrom(_, _)
ExtractFrom(data, acc) ==
  IF data = <<>> THEN ReturnedList(acc)
  ELSE IF PyIsDigit(Head(data))
    THEN IF PyIntOk(Head(data))
           THEN ExtractFrom(Tail(data), Append(acc, PyInt(Head(data))))
           ELSE Raised("ValueError", "invalid literal for int() with base 10")
    ELSE ExtractFrom(Tail(data), acc)

DigitStringToIntExtractor_extract(data) == ExtractFrom(data, <<>>)

MeanStatistic_compute(numbers) ==
  LET nums == numbers
  IN IF nums = <<>>
       THEN Raised("ValueError", "No numbers to compute statistic.")
       ELSE Returned(TrueDiv(PySum(nums), Len(nums)))

\* the median taken without sorting first
MedianStatistic_compute_unsorted(numbers) ==
  LET n == Len(numbers)
      mid == n \div 2
  IN IF n % 2 = 0
       THEN IF PyIndexOk(numbers, mid - 1) /\ PyIndexOk(numbers, mid)
              THEN Returned(TrueDiv(PyIndex(numbers, mid - 1) + PyIndex(numbers, mid), 2))
              ELSE Raised("IndexError", "list index out of range")
       ELSE Returned(IntVal(PyIndex(numbers, mid)))

\* no emptiness check: on [] n = 0, mid = 0 and sorted_nums[mid - 1] is
\* sorted_nums[-1] of an empty list
MedianStatistic_compute(numbers) ==
  LET sorted_nums == PySorted(numbers)
      n == Len(sorted_nums)
      mid == n \div 2
  IN IF n % 2 = 0
       THEN IF PyIndexOk(sorted_nums, mid - 1) /\ PyIndexOk(sorted_nums, mid)
              THEN Returned(TrueDiv(PyIndex(sorted_nums, mid - 1) + PyIndex(sorted_nums, mid), 2))
              ELSE Raised("IndexError", "list index out of range")
       ELSE Returned(IntVal(PyIndex(sorted_nums, mid)))

\* the caller's list after compute: list(numbers) copies and sorted() builds a
\* new list, so the list passed in is left as it was
Statistic_numbersAfter(kind, numbers) == numbers

Statistic_compute(kind, numbers) ==
  IF kind = "Mean" THEN MeanStatistic_compute(numbers) ELSE MedianStatistic_compute(numbers)

\* ------------------------------------ roles of refactoring/oop_with_logging.py
\* each returns its outcome and the events it logged
RoleResult(out, logs) == [out |-> out, logs |-> logs]

\* out = [x.strip() for x in data if x]
RECURSIVE Logging_CleanItems(_)
Logging_CleanItems(data) ==
  IF data = <<>> THEN <<>>
  ELSE IF Truthy(Head(data))
    THEN <<PyStrip(Head(data))>> \o Logging_CleanItems(Tail(data))
    ELSE Logging_CleanItems(Tail(data))

Logging_WhitespaceCleaner_clean(data) ==
  LET out == Logging_CleanItems(data)
  IN RoleResult(ReturnedList(out), <<Loggable_log("clean_done", "", NoVal)>>)

\* the for loop: out.append(int(x)) when x.isdigit(); extract_done is logged
\* only when the loop ends normally
RECURSIVE Logging_ExtractLoop(_, _)
Logging_ExtractLoop(data, out) ==
  IF data = <<>> THEN ReturnedList(out)
  ELSE LET x == Head(data)
       IN IF PyIsDigit(x)
            THEN IF PyIntOk(x)
                   THEN Logging_ExtractLoop(Tail(data), Append(out, PyInt(x)))
                   ELSE Raised("ValueError", "invalid literal for int() with base 10")
            ELSE Logging_ExtractLoop(Tail(data), out)

Logging_DigitStringToIntExtractor_extract(data) ==
  LET r == Logging_ExtractLoop(data, <<>>)
  IN IF r.kind = "return"
       THEN RoleResult(r, <<Loggable_log("extract_done", "", NoVal)>>)
       ELSE RoleResult(r, <<>>)

\* if not numbers: raise ValueError("No numbers to compute.")
Logging_Statistic_validate(numbers) ==
  IF numbers = <<>> THEN Raised("ValueError", "No numbers to compute.")
  ELSE ReturnedList(numbers)

Logging_MeanStatistic_compute(numbers) ==
  LET v == Logging_Statistic_validate(numbers)
  IN IF v.kind = "raise" THEN RoleResult(v, <<>>)
     ELSE LET nums == v.list
              value == TrueDiv(PySum(nums), Len(nums))
          IN RoleResult(Returned(value), <<Loggable_log("compute_mean_done", "", value)>>)

Logging_MedianStatistic_compute(numbers) ==
  LET v == Logging_Statistic_validate(numbers)
  IN IF v.kind = "raise" THEN RoleResult(v, <<>>)
     ELSE LET sorted_nums == PySorted(v.list)
              n == Len(sorted_nums)
              mid == n \div 2
              value == IF n % 2 = 0
                         THEN TrueDiv(PyIndex(sorted_nums, mid - 1) + PyIndex(sorted_nums, mid), 2)
                         ELSE PyFloat(PyIndex(sorted_nums, mid))
          IN RoleResult(Returned(value), <<Loggable_log("compute_median_done", "", value)>>)

\* validate returns numbers itself; sum() and sorted() do not write to it
Logging_Statistic_numbersAfter(kind, numbers) == numbers

Logging_Statistic_compute(kind, numbers) ==
  IF kind = "Mean" THEN Logging_MeanStatistic_compute(numbers)
  ELSE Logging_MedianStatistic_compute(numbers)

\* PrintPresenter.present / LoggerPresenter.present: the events each logs
Logging_Presenter_present(which, lbl, value) ==
  IF which = "Print" THEN <<Loggable_log("present_print_done", lbl, value)>>
  ELSE <<Loggable_log("present_result", lbl, value), Loggable_log("present_logger_done", lbl, NoVal)>>

\* ----------------------------------------------------------- input domains
RECURSIVE SeqsUpTo(_, _)
SeqsUpTo(n, S) ==
  IF n = 0 THEN {<<>>}
  ELSE LET shorter == SeqsUpTo(n - 1, S)
       IN shorter \cup {Append(q, x) : q \in {r \in shorter : Len(r) = n - 1}, x \in S}

\* the records the pipeline runs draw from: "", "  ", " 12", "abc", " 5",
\* " 20 ", and the one-character string U+00B2
PipelineRecords ==
  { <<>>, <<" ", " ">>, <<" ", "1", "2">>, <<"a", "b", "c">>, <<" ", "5">>,
    <<" ", "2", "0", " ">>, <<"U+00B2">> }

\* pipeline.run([" 12", "abc", " 5", " 20 "], label="Average")
UsageExample == << <<" ", "1", "2">>, <<"a", "b", "c">>, <<" ", "5">>, <<" ", "2", "0", " ">> >>
MedianExample == << <<"1">>, <<"2">>, <<"3">>, <<"4">> >>

RawInputs == SeqsUpTo(MaxRecords, PipelineRecords) \cup {UsageExample, MedianExample}
Labels == {"Result", "Average"}
Statistics == {"Mean", "Median"}
Variants == {"plain", "logging"}

\* --------------------------------------------------------------- the state
VARIABLES
  raw,        \* the sequence of records handed to run
  label,      \* the label handed to run
  statistic,  \* the Statistic both pipelines are built with
  presenter,  \* per pipeline: "None", "Print" or (logging module) "Logger"
  pc,         \* per pipeline: the position in run
  cleaned,    \* per pipeline: run's local cleaned
  numbers,    \* per pipeline: run's local numbers
  value,      \* per pipeline: run's local value
  pending,    \* per pipeline: the exception travelling up through run
  outcome,    \* per pipeline: what run's caller got
  trace,      \* per pipeline: the role calls and log events, in order
  fnArg,      \* the argument of a direct call of one role
  fnOp,       \* the role called directly
  fnOut,      \* the outcome of that call
  fnAfter,    \* the caller's argument object once the call is over
  data,       \* Database.data
  last,       \* the last Database call and what it did
  hist        \* the Database calls that succeeded, in order

pipeVars == <<raw, label, statistic, presenter, pc, cleaned, numbers, value, pending, outcome, trace>>
fnVars == <<fnArg, fnOp, fnOut, fnAfter>>
dbVars == <<data, last, hist>>
vars == <<pipeVars, fnVars, dbVars>>

NoCall == [op |-> "none", id |-> 0, name |-> "", kind |-> "none", ret |-> "", msg |-> "", before |-> <<>>]
NoArg == [strs |-> <<>>, nums |-> <<>>]

PipeIdle ==
  /\ raw = <<>> /\ label = "Result" /\ statistic = "Mean"
  /\ presenter = [v \in Variants |-> "None"]
  /\ pc = [v \in Variants |-> "idle"]
  /\ cleaned = [v \in Variants |-> <<>>]
  /\ numbers = [v \in Variants |-> <<>>]
  /\ value = [v \in Variants |-> NoVal]
  /\ pending = [v \in Variants |-> NoOutcome]
  /\ outcome = [v \in Variants |-> NoOutcome]
  /\ trace = [v \in Variants |-> <<>>]
FnIdle == fnArg = NoArg /\ fnOp = "none" /\ fnOut = NoOutcome /\ fnAfter = NoArg
DbIdle == data = <<>> /\ last = NoCall /\ hist = <<>>

\* ------------------------------------------ DataPipeline.run, plain module
\* a driver calls the plain pipeline's run and then the logging pipeline's run
\* on the same raw and label
Init ==
  /\ raw \in RawInputs
  /\ label \in Labels
  /\ statistic \in Statistics
  /\ presenter \in {f \in [Variants -> {"None", "Print", "Logger"}] : f["plain"] # "Logger"}
  /\ pc = [v \in Variants |-> IF v = "plain" THEN "clean" ELSE "wait"]
  /\ cleaned = [v \in Variants |-> <<>>]
  /\ numbers = [v \in Variants |-> <<>>]
  /\ value = [v \in Variants |-> NoVal]
  /\ pending = [v \in Variants |-> NoOutcome]
  /\ outcome = [v \in Variants |-> NoOutcome]
  /\ trace = [v \in Variants |-> <<>>]
  /\ FnIdle /\ DbIdle

Config == <<raw, label, statistic, presenter>>

\* cleaned = self.cleaner.clean(raw)
Plain_Clean ==
  /\ pc["plain"] = "clean"
  /\ cleaned' = [cleaned EXCEPT !["plain"] = WhitespaceCleaner_clean(raw)]
  /\ trace' = [trace EXCEPT !["plain"] = Append(@, CallItem("clean", raw, <<>>, "", NoVal))]
  /\ pc' = [pc EXCEPT !["plain"] = "extract"]
  /\ UNCHANGED <<Config, numbers, value, pending, outcome, fnVars, dbVars>>

\* numbers = self.extractor.extract(cleaned)
Plain_Extract ==
  /\ pc["plain"] = "extract"
  /\ LET r == DigitStringToIntExtractor_extract(cleaned["plain"])
     IN /\ trace' = [trace EXCEPT !["plain"] = Append(@, CallItem("extract", cleaned["plain"], <<>>, "", NoVal))]
        /\ IF r.kind = "return"
             THEN /\ numbers' = [numbers EXCEPT !["plain"] = r.list]
                  /\ pc' = [pc EXCEPT !["plain"] = "compute"]
                  /\ UNCHANGED outcome
             ELSE /\ outcome' = [outcome EXCEPT !["plain"] = r]
                  /\ pc' = [pc EXCEPT !["plain"] = "done"]
                  /\ UNCHANGED numbers
  /\ UNCHANGED <<Config, cleaned, value, pending, fnVars, dbVars>>

\* value = self.statistic.compute(numbers); an exception leaves run at once
Plain_Compute ==
  /\ pc["plain"] = "compute"
  /\ LET r == Statistic_compute(statistic, numbers["plain"])
     IN /\ trace' = [trace EXCEPT !["plain"] = Append(@, CallItem("compute", <<>>, numbers["plain"], "", NoVal))]
        /\ IF r.kind = "return"
             THEN /\ value' = [value EXCEPT !["plain"] = r.val]
                  /\ pc' = [pc EXCEPT !["plain"] = "present"]
                  /\ UNCHANGED outcome
             ELSE /\ outcome' = [outcome EXCEPT !["plain"] = r]
                  /\ pc' = [pc EXCEPT !["plain"] = "done"]
                  /\ UNCHANGED value
  /\ UNCHANGED <<Config, cleaned, numbers, pending, fnVars, dbVars>>

\* present called whether or not a presenter is configured
Plain_Present_always ==
  /\ pc["plain"] = "present"
  /\ trace' = [trace EXCEPT !["plain"] = Append(@, CallItem("present", <<>>, <<>>, label, value["plain"]))]
  /\ pc' = [pc EXCEPT !["plain"] = "return"]
  /\ UNCHANGED <<Config, cleaned, numbers, value, pending, outcome, fnVars, dbVars>>

\* if self.presenter: self.presenter.present(label, value)
Plain_Present ==
  /\ pc["plain"] = "present"
  /\ trace' = [trace EXCEPT !["plain"] =
                 IF presenter["plain"] # "None"
                   THEN Append(@, CallItem("present", <<>>, <<>>, label, value["plain"]))
                   ELSE @]
  /\ pc' = [pc EXCEPT !["plain"] = "return"]
  /\ UNCHANGED <<Config, cleaned, numbers, value, pending, outcome, fnVars, dbVars>>

\* return value
Plain_Return ==
  /\ pc["plain"] = "return"
  /\ outcome' = [outcome EXCEPT !["plain"] = Returned(value["plain"])]
  /\ pc' = [pc EXCEPT !["plain"] = "done"]
  /\ UNCHANGED <<Config, cleaned, numbers, value, pending, trace, fnVars, dbVars>>

\* ---------------------------------------- DataPipeline.run, logging module
\* self._log("INFO", "pipeline_start", label=label), once the plain run is over
Logging_Start ==
  /\ pc["logging"] = "wait" /\ pc["plain"] = "done"
  /\ trace' = [trace EXCEPT !["logging"] = Append(@, Loggable_log("pipeline_start", label, NoVal))]
  /\ pc' = [pc EXCEPT !["logging"] = "clean"]
  /\ UNCHANGED <<Config, cleaned, numbers, value, pending, outcome, fnVars, dbVars>>

Logging_Clean ==
  /\ pc["logging"] = "clean"
  /\ LET r == Logging_WhitespaceCleaner_clean(raw)
     IN /\ cleaned' = [cleaned EXCEPT !["logging"] = r.out.list]
        /\ trace' = [trace EXCEPT !["logging"] =
                       Append(@, CallItem("clean", raw, <<>>, "", NoVal)) \o r.logs]
  /\ pc' = [pc EXCEPT !["logging"] = "extract"]
  /\ UNCHANGED <<Config, numbers, value, pending, outcome, fnVars, dbVars>>

Logging_Extract ==
  /\ pc["logging"] = "extract"
  /\ LET r == Logging_DigitStringToIntExtractor_extract(cleaned["logging"])
     IN /\ trace' = [trace EXCEPT !["logging"] =
                       Append(@, CallItem("extract", cleaned["logging"], <<>>, "", NoVal)) \o r.logs]
        /\ IF r.out.kind = "return"
             THEN /\ numbers' = [numbers EXCEPT !["logging"] = r.out.list]
                  /\ pc' = [pc EXCEPT !["logging"] = "compute"]
                  /\ UNCHANGED pending
             ELSE /\ pending' = [pending EXCEPT !["logging"] = r.out]
                  /\ pc' = [pc EXCEPT !["logging"] = "except"]
                  /\ UNCHANGED numbers
  /\ UNCHANGED <<Config, cleaned, value, outcome, fnVars, dbVars>>

Logging_Compute ==
  /\ pc["logging"] = "compute"
  /\ LET r == Logging_Statistic_compute(statistic, numbers["logging"])
     IN /\ trace' = [trace EXCEPT !["logging"] =
                       Append(@, CallItem("compute", <<>>, numbers["logging"], "", NoVal)) \o r.logs]
        /\ IF r.out.kind = "return"
             THEN /\ value' = [value EXCEPT !["logging"] = r.out.val]
                  /\ pc' = [pc EXCEPT !["logging"] = "present"]
                  /\ UNCHANGED pending
             ELSE /\ pending' = [pending EXCEPT !["logging"] = r.out]
                  /\ pc' = [pc EXCEPT !["logging"] = "except"]
                  /\ UNCHANGED value
  /\ UNCHANGED <<Config, cleaned, numbers, outcome, fnVars, dbVars>>

Logging_Present ==
  /\ pc["logging"] = "present"
  /\ trace' = [trace EXCEPT !["logging"] =
                 IF presenter["logging"] # "None"
                   THEN Append(@, CallItem("present", <<>>, <<>>, label, value["logging"]))
                          \o Logging_Presenter_present(presenter["logging"], label, value["logging"])
                   ELSE @]
  /\ pc' = [pc EXCEPT !["logging"] = "success"]
  /\ UNCHANGED <<Config, cleaned, numbers, value, pending, outcome, fnVars, dbVars>>

\* self._log("INFO", "pipeline_success", ...); return value
Logging_Success ==
  /\ pc["logging"] = "success"
  /\ trace' = [trace EXCEPT !["logging"] = Append(@, Loggable_log("pipeline_success", label, NoVal))]
  /\ outcome' = [outcome EXCEPT !["logging"] = Returned(value["logging"])]
  /\ pc' = [pc EXCEPT !["logging"] = "done"]
  /\ UNCHANGED <<Config, cleaned, numbers, value, pending, fnVars, dbVars>>

\* the handler swallowing the error and returning a sentinel
Logging_Except_swallow ==
  /\ pc["logging"] = "except"
  /\ trace' = [trace EXCEPT !["logging"] = Append(@, Loggable_log("pipeline_error", label, NoVal))]
  /\ outcome' = [outcome EXCEPT !["logging"] = Returned(PyFloat(0))]
  /\ pc' = [pc EXCEPT !["logging"] = "done"]
  /\ UNCHANGED <<Config, cleaned, numbers, value, pending, fnVars, dbVars>>

\* the handler re-raising without logging pipeline_error
Logging_Except_silent ==
  /\ pc["logging"] = "except"
  /\ outcome' = [outcome EXCEPT !["logging"] = pending["logging"]]
  /\ pc' = [pc EXCEPT !["logging"] = "done"]
  /\ UNCHANGED <<Config, cleaned, numbers, value, pending, trace, fnVars, dbVars>>

\* except Exception as e: self._log("ERROR", "pipeline_error", ...); raise
Logging_Except ==
  /\ pc["logging"] = "except"
  /\ trace' = [trace EXCEPT !["logging"] = Append(@, Loggable_log("pipeline_error", label, NoVal))]
  /\ outcome' = [outcome EXCEPT !["logging"] = pending["logging"]]
  /\ pc' = [pc EXCEPT !["logging"] = "done"]
  /\ UNCHANGED <<Config, cleaned, numbers, value, pending, fnVars, dbVars>>

Next ==
  \/ Plain_Clean \/ Plain_Extract \/ Plain_Compute \/ Plain_Present \/ Plain_Return
  \/ Logging_Start \/ Logging_Clean \/ Logging_Extract \/ Logging_Compute
  \/ Logging_Present \/ Logging_Success \/ Logging_Except

Spec == Init /\ [][Next]_vars

\* ------------------------------------------------ one role, called directly
FnRecords ==
  PipelineRecords \cup
  { <<"7">>, <<"-", "3">>, <<"+", "2">>, <<"1", ".", "5">>, <<"U+0663">>, <<"\t", "4">>, <<"1", "U+00B2">> }

Nums == -1..MaxNum
NumInputs == SeqsUpTo(MaxLen, Nums)
StrInputs == SeqsUpTo(MaxRecords, FnRecords)

InitFn ==
  /\ fnArg \in {[strs |-> s, nums |-> <<>>] : s \in StrInputs}
               \cup {[strs |-> <<>>, nums |-> n] : n \in NumInputs}
  /\ fnOp = "none" /\ fnOut = NoOutcome /\ fnAfter = fnArg
  /\ PipeIdle /\ DbIdle

Call_clean ==
  /\ fnOp = "none"
  /\ fnOp' = "clean"
  /\ fnOut' = ReturnedList(WhitespaceCleaner_clean(fnArg.strs))
  /\ fnAfter' = fnAfter
  /\ UNCHANGED <<fnArg, pipeVars, dbVars>>

Call_clean_data ==
  /\ fnOp = "none"
  /\ fnOp' = "clean_data"
  /\ fnOut' = ReturnedList(clean_data(fnArg.strs))
  /\ fnAfter' = fnAfter
  /\ UNCHANGED <<fnArg, pipeVars, dbVars>>

Call_Logging_clean ==
  /\ fnOp = "none"
  /\ fnOp' = "logging.clean"
  /\ fnOut' = Logging_WhitespaceCleaner_clean(fnArg.strs).out
  /\ fnAfter' = fnAfter
  /\ UNCHANGED <<fnArg, pipeVars, dbVars>>

Call_extract ==
  /\ fnOp = "none"
  /\ fnOp' = "extract"
  /\ fnOut' = DigitStringToIntExtractor_extract(fnArg.strs)
  /\ fnAfter' = fnAfter
  /\ UNCHANGED <<fnArg, pipeVars, dbVars>>

Call_Logging_extract ==
  /\ fnOp = "none"
  /\ fnOp' = "logging.extract"
  /\ fnOut' = Logging_DigitStringToIntExtractor_extract(fnArg.strs).out
  /\ fnAfter' = fnAfter
  /\ UNCHANGED <<fnArg, pipeVars, dbVars>>

Call_compute(kind) ==
  /\ fnOp = "none"
  /\ fnOp' = kind
  /\ fnOut' = Statistic_compute(kind, fnArg.nums)
  /\ fnAfter' = [fnAfter EXCEPT !.nums = Statistic_numbersAfter(kind, fnArg.nums)]
  /\ UNCHANGED <<fnArg, pipeVars, dbVars>>

Call_Logging_compute(kind) ==
  /\ fnOp = "none"
  /\ fnOp' = IF kind = "Mean" THEN "logging.Mean" ELSE "logging.Median"
  /\ fnOut' = Logging_Statistic_compute(kind, fnArg.nums).out
  /\ fnAfter' = [fnAfter EXCEPT !.nums = Logging_Statistic_numbersAfter(kind, fnArg.nums)]
  /\ UNCHANGED <<fnArg, pipeVars, dbVars>>

NextFn ==
  \/ Call_clean \/ Call_clean_data \/ Call_Logging_clean
  \/ Call_extract \/ Call_Logging_extract
  \/ \E kind \in Statistics : Call_compute(kind)
  \/ \E kind \in Statistics : Call_Logging_compute(kind)

SpecFn == InitFn /\ [][NextFn]_vars

\* ------------------------------------------------------- fixtures/db.py
Ids == 1..MaxId
Names == {"Alice", "Bob"}

InitDb == DbIdle /\ PipeIdle /\ FnIdle

Call(op, id, name, kind, ret, msg) ==
  [op |-> op, id |-> id, name |-> name, kind |-> kind, ret |-> ret, msg |-> msg, before |-> data]

\* add_user that stores the name before it checks for the id
add_user_overwrite(user_id, name) ==
  /\ Len(hist) < MaxOps
  /\ data' = [i \in DOMAIN data \cup {user_id} |-> IF i = user_id THEN name ELSE data[i]]
  /\ IF user_id \in DOMAIN data
       THEN /\ last' = Call("add_user", user_id, name, "raise", "", "User already exists")
            /\ UNCHANGED hist
       ELSE /\ last' = Call("add_user", user_id, name, "return", "None", "")
            /\ hist' = Append(hist, [op |-> "add_user", id |-> user_id, name |-> name])
  /\ UNCHANGED <<pipeVars, fnVars>>

add_user(user_id, name) ==
  /\ Len(hist) < MaxOps
  /\ IF user_id \in DOMAIN data
       THEN /\ last' = Call("add_user", user_id, name, "raise", "", "User already exists")
            /\ UNCHANGED <<data, hist>>
       ELSE /\ data' = [i \in DOMAIN data \cup {user_id} |-> IF i = user_id THEN name ELSE data[i]]
            /\ last' = Call("add_user", user_id, name, "return", "None", "")
            /\ hist' = Append(hist, [op |-> "add_user", id |-> user_id, name |-> name])
  /\ UNCHANGED <<pipeVars, fnVars>>

\* self.data.get(user_id, None)
Database_get(user_id) == IF user_id \in DOMAIN data THEN data[user_id] ELSE "None"

get_user(user_id) ==
  /\ last' = Call("get_user", user_id, "", "return", Database_get(user_id), "")
  /\ UNCHANGED <<data, hist, pipeVars, fnVars>>

delete_user(user_id) ==
  /\ Len(hist) < MaxOps
  /\ IF user_id \in DOMAIN data
       THEN /\ data' = [i \in DOMAIN data \ {user_id} |-> data[i]]
            /\ last' = Call("delete_user", user_id, "", "return", "None", "")
            /\ hist' = Append(hist, [op |-> "delete_user", id |-> user_id, name |-> ""])
       ELSE /\ last' = Call("delete_user", user_id, "", "raise", "", "User does not exist")
            /\ UNCHANGED <<data, hist>>
  /\ UNCHANGED <<pipeVars, fnVars>>

NextDb ==
  \/ \E id \in Ids, name \in Names : add_user(id, name)
  \/ \E id \in Ids : get_user(id)
  \/ \E id \in Ids : delete_user(id)

SpecDb == InitDb /\ [][NextDb]_vars

\* =================================================================== claims
\* reference notions the claims are stated with
DecimalDigits == AsciiDigits \cup OtherDecimalDigits
IsTrimmed(s) == s = <<>> \/ (s[1] \notin Whitespace /\ s[Len(s)] \notin Whitespace)
OnlyDecimalDigits(s) == Len(s) > 0 /\ \A i \in 1..Len(s) : s[i] \in DecimalDigits

\* the string without its leading and trailing whitespace: the longest
\* trimmed slice between the first and the last non-whitespace character
Trimmed(s) ==
  LET keep == {i \in 1..Len(s) : s[i] \notin Whitespace}
  IN IF keep = {} THEN <<>>
     ELSE LET lo == CHOOSE i \in keep : \A j \in keep : i <= j
              hi == CHOOSE i \in keep : \A j \in keep : j <= i
          IN [k \in 1..(hi - lo + 1) |-> s[lo + k - 1]]

StrictlyIncreasing(f) == \A i, j \in DOMAIN f : i < j => f[i] < f[j]

RECURSIVE PlaceValue(_)
PlaceValue(s) ==
  IF Len(s) = 0 THEN 0
  ELSE DigitValue(Head(s)) * (10 ^ (Len(s) - 1)) + PlaceValue(Tail(s))

\* positions of data that hold purely-decimal-digit strings
DigitPositions(strs) == {i \in 1..Len(strs) : OnlyDecimalDigits(strs[i])}

\* the k-th smallest element of S, duplicates counted
KthSmallest(S, k) ==
  CHOOSE x \in {S[i] : i \in 1..Len(S)} :
    /\ Cardinality({i \in 1..Len(S) : S[i] < x}) < k
    /\ k <= Cardinality({i \in 1..Len(S) : S[i] <= x})

\* v is the median of the non-empty S
IsMedianOf(v, S) ==
  LET n == Len(S)
  IN IF n % 2 = 1
       THEN v.den = 1 /\ v.num = KthSmallest(S, (n + 1) \div 2)
       ELSE 2 * v.num = (KthSmallest(S, n \div 2) + KthSmallest(S, n \div 2 + 1)) * v.den

ComputeOps == {"Mean", "Median", "logging.Mean", "logging.Median"}
CleanOps == {"clean", "clean_data", "logging.clean"}
ExtractOps == {"extract", "logging.extract"}

\* C1: compute on an empty number sequence raises the ValueError of the
\* shared empty-input check, for Mean and Median of both modules; it never
\* returns and never raises another kind of error.
C1_EmptyInputIsInvalidInput ==
  (fnOp \in ComputeOps /\ fnArg.nums = <<>>) =>
    /\ fnOut.kind = "raise"
    /\ fnOut.exc = "ValueError"
    /\ fnOut.msg \in {"No numbers to compute statistic.", "No numbers to compute."}

\* C2: every element clean returns is a non-empty string without leading or
\* trailing whitespace, and the elements keep the relative order of the
\* records they came from.
C2_CleanedRecordsNonEmptyTrimmedInOrder ==
  fnOp \in CleanOps =>
    /\ fnOut.kind = "return"
    /\ \A k \in 1..Len(fnOut.list) : fnOut.list[k] # <<>> /\ IsTrimmed(fnOut.list[k])
    /\ \E f \in [1..Len(fnOut.list) -> 1..Len(fnArg.strs)] :
         /\ StrictlyIncreasing(f)
         /\ \A k \in 1..Len(fnOut.list) : fnOut.list[k] = Trimmed(fnArg.strs[f[k]])

\* C5: extract never raises; it returns, in input order, the integer value of
\* exactly the non-empty strings made only of decimal digits.
C5_ExtractTotalOnStrings ==
  fnOp \in ExtractOps =>
    /\ fnOut.kind = "return"
    /\ Len(fnOut.list) = Cardinality(DigitPositions(fnArg.strs))
    /\ \E f \in [1..Len(fnOut.list) -> 1..Len(fnArg.strs)] :
         /\ StrictlyIncreasing(f)
         /\ {f[k] : k \in 1..Len(fnOut.list)} = DigitPositions(fnArg.strs)
         /\ \A k \in 1..Len(fnOut.list) : fnOut.list[k] = PlaceValue(fnArg.strs[f[k]])

\* C6: on a non-empty integer sequence S, Median's compute returns the middle
\* element of S in ascending order (odd length) or the average of the two
\* central ones (even length), and S itself is left in the caller's order.
C6_MedianOfSorted ==
  (fnOp \in {"Median", "logging.Median"} /\ fnArg.nums # <<>>) =>
    /\ fnOut.kind = "return"
    /\ IsMedianOf(fnOut.val, fnArg.nums)
    /\ fnAfter.nums = fnArg.nums

C6_Witness ==
  /\ fnOp = "logging.Median"
  /\ fnArg.nums = <<3, 0, 2, 1>>
  /\ fnOut.kind = "return" /\ fnOut.val.num = 3 /\ fnOut.val.den = 2

\* ------------------------------------------------------- pipeline claims
IsCall(e) == e.ev = "call"
Calls(v) == SelectSeq(trace[v], IsCall)
ExpectedOrder == <<"clean", "extract", "compute", "present">>
CallCount(v) == IF presenter[v] # "None" THEN Len(ExpectedOrder) ELSE Len(ExpectedOrder) - 1

\* C3: run calls clean(raw), extract(cleaned), compute(numbers) and, exactly
\* when a presenter is configured, present(label, value), in that order and
\* once each; each stage gets the previous stage's output, and run returns the
\* value compute returned, the same value the presenter was handed.
C3_LinearRun ==
  \A v \in Variants :
    LET c == Calls(v)
    IN /\ Len(c) <= CallCount(v)
       /\ \A i \in 1..Len(c) : c[i].name = ExpectedOrder[i]
       /\ Len(c) >= 1 => c[1].strs = raw
       /\ Len(c) >= 2 => c[2].strs = cleaned[v]
       /\ Len(c) >= 3 => c[3].nums = numbers[v]
       /\ Len(c) >= 4 => c[4].lbl = label /\ c[4].val = value[v]
       /\ outcome[v].kind = "return" =>
            /\ Len(c) = CallCount(v)
            /\ value[v] # NoVal
            /\ outcome[v].val = value[v]

C3_Witness ==
  /\ raw = UsageExample /\ label = "Average"
  /\ presenter["plain"] = "Print" /\ presenter["logging"] = "None"
  /\ outcome["plain"].kind = "return" /\ outcome["logging"].kind = "return"
  /\ Len(Calls("plain")) = 4 /\ Len(Calls("logging")) = 3

\* what compute did with the numbers it was called on, per module
ComputeResult(v) ==
  IF v = "plain" THEN Statistic_compute(statistic, Calls(v)[3].nums)
  ELSE Logging_Statistic_compute(statistic, Calls(v)[3].nums).out
ComputeRaised(v) == Len(Calls(v)) >= 3 /\ ComputeResult(v).kind = "raise"

\* C4: when compute fails inside run, run ends with that same error at its
\* caller: present is not called, compute is not called again and run returns
\* no value, in the plain and in the logging orchestrator.
C4_ComputeFailureAborts ==
  \A v \in Variants :
    ComputeRaised(v) =>
      /\ Len(Calls(v)) = 3
      /\ pc[v] \in {"except", "done"}
      /\ outcome[v].kind # "return"
      /\ pc[v] = "done" => outcome[v] = ComputeResult(v)

C4_Witness ==
  /\ statistic = "Median"
  /\ presenter["plain"] = "Print" /\ presenter["logging"] = "Logger"
  /\ pc["plain"] = "done" /\ pc["logging"] = "done"
  /\ ComputeRaised("plain") /\ ComputeRaised("logging")
  /\ outcome["logging"].exc = "ValueError"

\* the numbers the records of raw stand for: each record that is non-empty
\* and, once trimmed, made only of decimal digits
RECURSIVE ExpectedSum(_)
ExpectedSum(strs) ==
  IF strs = <<>> THEN 0
  ELSE (IF OnlyDecimalDigits(Trimmed(Head(strs))) THEN PlaceValue(Trimmed(Head(strs))) ELSE 0)
       + ExpectedSum(Tail(strs))
ExpectedCount(strs) == Cardinality({i \in 1..Len(strs) : OnlyDecimalDigits(Trimmed(strs[i]))})

\* C7: with WhitespaceCleaner, DigitStringToIntExtractor and MeanStatistic,
\* run returns sum(N)/len(N) for the numbers N that the raw records stand
\* for (stated where N is not empty); [" 12", "abc", " 5", " 20 "] gives 37/3.
C7_MeanEndToEnd ==
  (statistic = "Mean" /\ pc["plain"] = "done" /\ ExpectedCount(raw) > 0) =>
    /\ outcome["plain"].kind = "return"
    /\ outcome["plain"].val.num * ExpectedCount(raw) = ExpectedSum(raw) * outcome["plain"].val.den
    /\ raw = UsageExample => outcome["plain"].val.num = 37 /\ outcome["plain"].val.den = 3

IsPresent(e) == e.ev = "call" /\ e.name = "present"
PresentCalls(v) == SelectSeq(trace[v], IsPresent)

\* C9: built from the same-named roles, the plain and the logging run either
\* return equal values or fail with the same kind of error, and they call the
\* presenter with the same (label, value) in the same cases.
C9_LoggingEquivalentToPlain ==
  (pc["plain"] = "done" /\ pc["logging"] = "done" /\ presenter["plain"] = presenter["logging"]) =>
    /\ outcome["plain"].kind = outcome["logging"].kind
    /\ outcome["plain"].kind = "return" => PyEq(outcome["plain"].val, outcome["logging"].val)
    /\ outcome["plain"].kind = "raise" => outcome["plain"].exc = outcome["logging"].exc
    /\ Len(PresentCalls("plain")) = Len(PresentCalls("logging"))
    /\ \A i \in 1..Len(PresentCalls("plain")) :
         /\ i <= Len(PresentCalls("logging"))
         /\ PresentCalls("plain")[i].lbl = PresentCalls("logging")[i].lbl
         /\ PyEq(PresentCalls("plain")[i].val, PresentCalls("logging")[i].val)

EventAt(i, name) == trace["logging"][i].ev = "log" /\ trace["logging"][i].name = name
Positions(name) == {i \in 1..Len(trace["logging"]) : EventAt(i, name)}

\* C10: a logging run emits pipeline_start before any role is invoked, and
\* exactly one terminal event, after all role activity: pipeline_success iff
\* run returns, pipeline_error iff run raises, never both, and
\* pipeline_success never before the configured presenter was called.
C10_StartAndOneTerminalEvent ==
  LET t == trace["logging"]
      ends == Positions("pipeline_success") \cup Positions("pipeline_error")
  IN /\ pc["logging"] # "wait" => Positions("pipeline_start") = {1}
     /\ pc["logging"] = "wait" => t = <<>>
     /\ pc["logging"] # "done" => ends = {}
     /\ pc["logging"] = "done" =>
          /\ ends = {Len(t)}
          /\ outcome["logging"].kind \in {"return", "raise"}
          /\ Positions("pipeline_success") # {} <=> outcome["logging"].kind = "return"
          /\ Positions("pipeline_error") # {} <=> outcome["logging"].kind = "raise"
     /\ (Positions("pipeline_success") # {} /\ presenter["logging"] # "None") =>
          \E i \in 1..Len(t) : IsPresent(t[i]) /\ \A j \in Positions("pipeline_success") : i < j

C10_Witness ==
  /\ pc["logging"] = "done"
  /\ presenter["logging"] = "Logger"
  /\ outcome["logging"].kind = "return"
  /\ EventAt(1, "pipeline_start")
  /\ EventAt(Len(trace["logging"]), "pipeline_success")

\* ------------------------------------------------------- Database claim
\* the name the successful calls so far leave stored under id
Expected(id) ==
  LET on == {i \in 1..Len(hist) : hist[i].id = id}
  IN IF on = {} THEN "None"
     ELSE LET n == CHOOSE i \in on : \A j \in on : j <= i
          IN IF hist[n].op = "add_user" THEN hist[n].name ELSE "None"

\* C8: get_user(id) is the name of the latest successful add_user(id, name)
\* not followed by a successful delete_user(id), else None; add_user on a
\* stored id raises 'User already exists', delete_user on an id not stored
\* raises 'User does not exist', and a failing call leaves the store as it was.
C8_DatabaseStore ==
  /\ \A id \in Ids : Database_get(id) = Expected(id)
  /\ last.op = "get_user" => last.kind = "return" /\ last.ret = Expected(last.id) /\ data = last.before
  /\ last.op = "add_user" =>
       IF last.id \in DOMAIN last.before
         THEN last.kind = "raise" /\ last.msg = "User already exists" /\ data = last.before
         ELSE last.kind = "return"
  /\ last.op = "delete_user" =>
       IF last.id \notin DOMAIN last.before
         THEN last.kind = "raise" /\ last.msg = "User does not exist" /\ data = last.before
         ELSE last.kind = "return"

C8_Witness ==
  /\ last.op = "add_user" /\ last.kind = "raise" /\ last.name # data[last.id]
  /\ \E i \in 1..Len(hist) : hist[i].op = "delete_user" /\ hist[i].id = last.id

====
